---- MODULE Spec2Model ----
(***************************************************************************)
(* Bitfa-Trader: the signal-to-position orchestration of                    *)
(* trading/manager.py (PositionManager) together with the periodic sweeps   *)
(* of trading/tasks.py (_sync_orders, _sync_pnl) over the entities of       *)
(* signals/models.py and trading/models.py.                                 *)
(*                                                                          *)
(* Numbers.  Prices are integers in tenths (1966.3 is 19663).  Quantities   *)
(* are integers in units of 10^-DECIMAL_PLACES, the precision of the        *)
(* DecimalField columns, so a stored quantity is the exact Decimal of the   *)
(* code quantized half-even to the column.  Volumes sent to the exchange    *)
(* are integers in units of 10^-VOLUME_PLACES (round(x, 4)).  An optional   *)
(* value is <<>> (None) or <<v>>.  A string that the code scans (a symbol)  *)
(* is a tuple of one-character strings.                                     *)
(***************************************************************************)
EXTENDS Integers, Sequences, FiniteSets, TLC

\* ---------------------------------------------------------------- bounds
MaxSignals == 2
MaxUpdates == 2
\* the events of the specification that interleaves them with both sweeps
SweepSignals == 1
SweepUpdates == 1
\* the messages of the specification of the listener's tasks
MaxTasks == 2
\* the Reconciliation sweeps that may be in flight at once
MaxSweeps == 2
\* the parameters of a signed request
MaxParams == 2

\* ------------------------------------------------------ program constants
MAX_OPEN_POSITIONS == 1
DECIMAL_PLACES == 8
VOLUME_PLACES == 4
DEFAULT_CLOSE_PERCENTAGE == 50

None == <<>>
Some(v) == <<v>>

\* ------------------------------------------------------------ enumerations
SignalStatus ==
  [NEW |-> "new", ACTIVE |-> "active", PARTIALLY_CLOSED |-> "partially_closed",
   CLOSED |-> "closed", CANCELLED |-> "cancelled", EXPIRED |-> "expired"]

PositionStatus ==
  [PENDING |-> "pending", OPEN |-> "open", PARTIALLY_CLOSED |-> "partially_closed",
   CLOSED |-> "closed", FAILED |-> "failed", CANCELLED |-> "cancelled"]

OrderSide ==
  [OPEN_LONG |-> "open_long", OPEN_SHORT |-> "open_short",
   CLOSE_LONG |-> "close_long", CLOSE_SHORT |-> "close_short"]

OrderStatus ==
  [PENDING |-> "pending", SUBMITTED |-> "submitted", FILLED |-> "filled",
   PARTIALLY_FILLED |-> "partially_filled", CANCELLED |-> "cancelled",
   FAILED |-> "failed"]

\* ------------------------------------------------------------- str methods
UpperChar(c) ==
  CASE c = "e" -> "E" [] c = "t" -> "T" [] c = "h" -> "H" [] c = "u" -> "U"
    [] c = "s" -> "S" [] c = "d" -> "D" [] c = "b" -> "B" [] c = "c" -> "C"
    [] OTHER -> c

StrUpper(s) == [i \in 1..Len(s) |-> UpperChar(s[i])]

RECURSIVE StrReplace(_, _, _)
StrReplace(s, old, new) ==
  IF Len(s) < Len(old) THEN s
  ELSE IF SubSeq(s, 1, Len(old)) = old
       THEN new \o StrReplace(SubSeq(s, Len(old) + 1, Len(s)), old, new)
       ELSE <<s[1]>> \o StrReplace(Tail(s), old, new)

IExact(field, value) == StrUpper(field) = StrUpper(value)

IContains(field, value) ==
  \E i \in 1..(Len(field) - Len(value) + 1) :
     StrUpper(SubSeq(field, i, i + Len(value) - 1)) = StrUpper(value)

SLASH == <<"/">>
USDT == <<"U", "S", "D", "T">>

NormalizeSymbol(symbol_raw) == StrUpper(StrReplace(symbol_raw, SLASH, <<>>))

\* --------------------------------------------------------- Decimal methods
\* <<floor(num * 10^places / den), remainder>>, by long division
RECURSIVE LongDiv(_, _, _)
LongDiv(num, den, places) ==
  IF places = 0 THEN <<num \div den, num % den>>
  ELSE LET p == LongDiv(num, den, places - 1)
       IN  <<p[1] * 10 + ((p[2] * 10) \div den), (p[2] * 10) % den>>

\* num/den in units of 10^-places, ROUND_HALF_EVEN
Quantize(num, den, places) ==
  LET p == LongDiv(num, den, places)
      q == p[1]
      r == p[2]
  IN  IF 2 * r < den THEN q
      ELSE IF 2 * r > den THEN q + 1
      ELSE IF q % 2 = 0 THEN q ELSE q + 1

Abs(x) == IF x < 0 THEN -x ELSE x

RECURSIVE Pow10(_)
Pow10(n) == IF n = 0 THEN 1 ELSE 10 * Pow10(n - 1)

\* a Decimal in memory: the exact value num / den * 10^-exp
Dec(num, den, exp) == [num |-> num, den |-> den, exp |-> exp]

\* Decimal.quantize to `places` decimals, as an integer count of 10^-places
Round(d, places) ==
  IF places >= d.exp THEN Quantize(d.num, d.den, places - d.exp)
  ELSE Quantize(d.num, d.den * Pow10(d.exp - places), 0)

\* round(x, 4), the "volume" sent to the exchange
Round4(d) == Round(d, VOLUME_PLACES)

\* the value a DecimalField(decimal_places=8) column holds after a save
ToColumn(d) == Round(d, DECIMAL_PLACES)

\* the Decimal read back from such a column
FromColumn(q) == Dec(q, 1, DECIMAL_PLACES)

\* ------------------------------------------------------------------ state
VARIABLES
  signals,      \* Signal rows, in creation order (pk = index)
  updates,      \* SignalUpdate rows, in creation order
  positions,    \* Position rows, in creation order (pk = index)
  orders,       \* Order rows, in creation order (pk = index)
  calls,        \* exchange calls issued by the last handled event, in order
  ev,           \* the last handled event: its inputs, exchange answers, outcome
  sync,         \* the Reconciliation sweeps in flight (_sync_orders), per worker
  pnl,          \* the PnL sweep in flight (_sync_pnl)
  tasks,        \* the handler invocations the listener has started
  signed        \* the requests handed to LBankFuturesClient._sign and its results,
                \* or the last request handed to the HTTP client

vars == <<signals, updates, positions, orders, calls, ev, sync, pnl, tasks, signed>>

\* ------------------------------------------------------------ input domains
ETH_USDT == <<"E", "T", "H", "/", "U", "S", "D", "T">>
eth_usdt == <<"e", "t", "h", "/", "u", "s", "d", "t">>

btc_usdt == <<"b", "t", "c", "/", "u", "s", "d", "t">>

\* the same pair written without the slash, and a pair whose base begins
\* with ETH
ETHUSDT == <<"E", "T", "H", "U", "S", "D", "T">>
ETHW_USDT == <<"E", "T", "H", "W", "/", "U", "S", "D", "T">>

\* Scenario A of the specification, with a balance the integers can carry
ScenarioA ==
  [symbol |-> ETH_USDT, direction |-> "long", entry_price_low |-> Some(19663),
   stop_loss |-> Some(19000), risk_percent |-> 1, leverage |-> 8]
ShortBtc ==
  [symbol |-> btc_usdt, direction |-> "short", entry_price_low |-> Some(19000),
   stop_loss |-> Some(19663), risk_percent |-> 2, leverage |-> 5]
ZeroDistance == [ScenarioA EXCEPT !.entry_price_low = Some(19000)]
Incomplete ==
  { [ScenarioA EXCEPT !.symbol = <<>>], [ScenarioA EXCEPT !.direction = ""],
    [ScenarioA EXCEPT !.entry_price_low = None],
    [ShortBtc EXCEPT !.stop_loss = None] }

ParsedSignals == {ScenarioA, ShortBtc, ZeroDistance} \cup Incomplete
Balances == {0, 10}

Call(op, symbol, side, volume, price) ==
  [op |-> op, symbol |-> symbol, side |-> side, volume |-> volume, price |-> price]

\* truthiness of an optional number or of a scanned string (None, 0, "" are falsy)
Truthy(x) == x # <<>> /\ x # <<0>>

OpenCount(ps) ==
  Cardinality({i \in 1..Len(ps) :
     ps[i].status \in {PositionStatus.OPEN, PositionStatus.PENDING}})

NoEvent == [kind |-> "none"]

\* dict.get(key, default): the default is returned only when the key is absent
Get(d, key, default) == IF key \in DOMAIN d THEN d[key] ELSE default

\* the telegram_msg_id values a table holds (the column is unique)
MessageIds(rows) == {rows[i].telegram_msg_id : i \in 1..Len(rows)}

Idle == [pc |-> "idle", rows |-> <<>>]

\* no request has been signed
Unsigned == <<>>

Init ==
  /\ signals = <<>>
  /\ updates = <<>>
  /\ positions = <<>>
  /\ orders = <<>>
  /\ calls = <<>>
  /\ ev = NoEvent
  /\ sync = [w \in 1..MaxSweeps |-> Idle]
  /\ pnl = Idle
  /\ tasks = <<>>
  /\ signed = Unsigned

\* ------------------------------------------------- handle_new_signal pieces
SlDistance(entry_price, sl_price) == Abs(entry_price - sl_price)

\* position_size = (balance * risk_pct / 100 * leverage) / sl_distance,
\* sl_distance in tenths
PositionSize(balance, risk_pct, leverage, sl_distance) ==
  Dec(balance * risk_pct * leverage * 10, 100 * sl_distance, 0)

OpenSide(direction) ==
  IF direction = "long" THEN OrderSide.OPEN_LONG ELSE OrderSide.OPEN_SHORT

CloseSide(direction) ==
  IF direction = "long" THEN OrderSide.CLOSE_LONG ELSE OrderSide.CLOSE_SHORT

\* the same test without the direction
IsComplete_NoDirection(parsed) ==
  /\ Truthy(parsed.symbol)
  /\ Truthy(parsed.entry_price_low)
  /\ Truthy(parsed.stop_loss)

IsComplete(parsed) ==
  /\ Truthy(parsed.symbol)
  /\ parsed.direction # ""
  /\ Truthy(parsed.entry_price_low)
  /\ Truthy(parsed.stop_loss)

\* the same test with a strict comparison
AtCapacity_Strict(ps) == OpenCount(ps) > MAX_OPEN_POSITIONS

AtCapacity(ps) == OpenCount(ps) >= MAX_OPEN_POSITIONS

NewSignalRow(parsed, msg, status) ==
  [telegram_msg_id |-> msg,
   symbol          |-> parsed.symbol,
   direction       |-> IF parsed.direction = "long" THEN "long" ELSE "short",
   entry_price_low |-> parsed.entry_price_low[1],
   stop_loss       |-> parsed.stop_loss[1],
   risk_percent    |-> parsed.risk_percent,
   leverage        |-> parsed.leverage,
   status          |-> status]

\* the same row with remaining_quantity left at the column default
NewPositionRow_NoRemaining(sig, parsed, position_size) ==
  [signal             |-> sig,
   symbol             |-> NormalizeSymbol(parsed.symbol),
   side               |-> parsed.direction,
   leverage           |-> parsed.leverage,
   entry_price        |-> None,
   quantity           |-> ToColumn(position_size),
   remaining_quantity |-> 0,
   current_stop_loss  |-> parsed.stop_loss,
   unrealized_pnl     |-> 0,
   status             |-> PositionStatus.PENDING,
   opened_at          |-> FALSE,
   closed_at          |-> FALSE]

NewPositionRow(sig, parsed, position_size) ==
  [signal             |-> sig,
   symbol             |-> NormalizeSymbol(parsed.symbol),
   side               |-> parsed.direction,
   leverage           |-> parsed.leverage,
   entry_price        |-> None,
   quantity           |-> ToColumn(position_size),
   remaining_quantity |-> ToColumn(position_size),
   current_stop_loss  |-> parsed.stop_loss,
   unrealized_pnl     |-> 0,
   status             |-> PositionStatus.PENDING,
   opened_at          |-> FALSE,
   closed_at          |-> FALSE]

\* the same row recorded as cancelled
EntryOrderRow_Cancelled(pos, parsed, position_size) ==
  [position        |-> pos,
   side            |-> OpenSide(parsed.direction),
   order_type      |-> "limit",
   price           |-> parsed.entry_price_low,
   quantity        |-> ToColumn(position_size),
   filled_quantity |-> 0,
   filled_price    |-> None,
   status          |-> OrderStatus.CANCELLED]

EntryOrderRow(pos, parsed, position_size) ==
  [position        |-> pos,
   side            |-> OpenSide(parsed.direction),
   order_type      |-> "limit",
   price           |-> parsed.entry_price_low,
   quantity        |-> ToColumn(position_size),
   filled_quantity |-> 0,
   filled_price    |-> None,
   status          |-> OrderStatus.SUBMITTED]

\* the same calls with the margin type set before the leverage
ConfigCalls_MarginFirst(parsed) ==
  LET symbol == NormalizeSymbol(parsed.symbol)
  IN  << Call("set_margin_type", symbol, "", 0, None),
         Call("set_leverage", symbol, "", parsed.leverage, None),
         Call("get_account", <<>>, "", 0, None) >>

\* the exchange calls of the try block, in program order
ConfigCalls(parsed) ==
  LET symbol == NormalizeSymbol(parsed.symbol)
  IN  << Call("set_leverage", symbol, "", parsed.leverage, None),
         Call("set_margin_type", symbol, "", 0, None),
         Call("get_account", <<>>, "", 0, None) >>

PlaceEntryCall(parsed, position_size) ==
  Call("place_order", NormalizeSymbol(parsed.symbol), OpenSide(parsed.direction),
       Round4(position_size), parsed.entry_price_low)

StopLossCall(symbol, direction, stop_price) ==
  Call("set_stop_loss", symbol, direction, 0, stop_price)

SetStatus(rows, i, status) == [rows EXCEPT ![i].status = status]

\* the same handler without the status change
OnException_Swallow(rows, sig) == rows

\* except Exception: signal.status = CANCELLED; signal.asave()
OnException(rows, sig) == SetStatus(rows, sig, SignalStatus.CANCELLED)

\* signal.status = ACTIVE; signal.asave()
OnSuccess(rows, sig) == SetStatus(rows, sig, SignalStatus.ACTIVE)

\* the same return with the Signal cancelled
OnZeroDistance_Cancel(rows, sig) == SetStatus(rows, sig, SignalStatus.CANCELLED)

\* if sl_distance == 0: return signal (the Signal is left as it was created)
OnZeroDistance(rows, sig) == rows

\* the result of an invocation that creates and changes nothing
Untouched ==
  [signals |-> signals, positions |-> positions, orders |-> orders, calls |-> <<>>]

\* what place_order returns when it does not raise: the JSON object of the
\* response, a key holding null being None and one holding an object Some(it)
WellFormed == [data |-> Some([orderId |-> "7"])]

\* order_id = result.get("data", {}).get("orderId", ""), as Some(order_id);
\* None is the AttributeError of calling .get on null
OrderId(result) ==
  LET data == Get(result, "data", Some(<<>>))
  IN  IF data = None THEN None ELSE Some(Get(data[1], "orderId", ""))

\* handle_new_signal from Signal.objects.acreate on (lines 65-161), for a
\* payload that passed the completeness and capacity checks
Execute(parsed, msg, ex) ==
  LET sig == Len(signals) + 1
      pos == Len(positions) + 1
      created == Append(signals, NewSignalRow(parsed, msg, SignalStatus.NEW))
      sl_distance == SlDistance(parsed.entry_price_low[1], parsed.stop_loss[1])
      position_size == PositionSize(ex.balance, parsed.risk_percent,
                                    parsed.leverage, sl_distance)
      withPosition == Append(positions, NewPositionRow(sig, parsed, position_size))
      withOrder == Append(orders, EntryOrderRow(pos, parsed, position_size))
      placed == ConfigCalls(parsed) \o <<PlaceEntryCall(parsed, position_size)>>
      stopped == placed \o <<StopLossCall(NormalizeSymbol(parsed.symbol),
                                           parsed.direction, parsed.stop_loss)>>
  IN
  IF msg \in MessageIds(signals)
    THEN Untouched @@ [outcome |-> "raised"]
  ELSE IF ex.fail \in 1..3
    THEN [signals |-> OnException(created, sig),
          positions |-> positions, orders |-> orders,
          calls |-> SubSeq(ConfigCalls(parsed), 1, ex.fail),
          outcome |-> "cancelled"]
  ELSE IF sl_distance = 0
    THEN [signals |-> OnZeroDistance(created, sig),
          positions |-> positions, orders |-> orders,
          calls |-> ConfigCalls(parsed), outcome |-> "zero_sl"]
  ELSE IF ex.fail = 4
    THEN [signals |-> OnException(created, sig),
          positions |-> positions, orders |-> orders,
          calls |-> placed, outcome |-> "cancelled"]
  ELSE IF OrderId(Get(ex, "placed", WellFormed)) = None
    THEN [signals |-> OnException(created, sig),
          positions |-> positions, orders |-> orders,
          calls |-> placed, outcome |-> "cancelled"]
  ELSE IF ex.fail = 5
    THEN [signals |-> OnException(created, sig),
          positions |-> withPosition, orders |-> withOrder,
          calls |-> stopped, outcome |-> "cancelled"]
  ELSE [signals |-> OnSuccess(created, sig),
        positions |-> withPosition, orders |-> withOrder,
        calls |-> stopped, outcome |-> "active"]

\* handle_new_signal(parsed, telegram_msg); msg is telegram_msg.id, ex.fail = n
\* makes the n-th exchange call of the sequence raise, ex.balance is the
\* availableBalance answered, ex.placed (WellFormed when left out) is what
\* place_order returns; outcome "raised" is an exception that leaves the
\* coroutine
handle_new_signal(parsed, msg, ex) ==
  IF ~IsComplete(parsed)
    THEN Untouched @@ [outcome |-> "incomplete"]
  ELSE IF AtCapacity(positions)
    THEN Untouched @@ [outcome |-> "capacity"]
  ELSE Execute(parsed, msg, ex)

\* the answers of the exchange to one handle_new_signal: the call that raises
\* (0: none) and the availableBalance, which is read only if get_account answers
NewSignalAnswers ==
  {ex \in [fail : 0..5, balance : Balances] : ex.fail \in 1..3 => ex.balance = 0}

NoAnswers == [fail |-> 0, balance |-> 0]

\* an id no row holds yet: the channel numbers its messages in increasing order
FreshMessage ==
  1 + Cardinality(MessageIds(signals) \cup MessageIds(updates))

\* one new_signal event, its payload drawn from P, its message id from M and
\* the exchange answers from A, while fewer than max Signals exist
NewSignalMsg(P, A, M, max) ==
  /\ Len(signals) < max
  /\ \E parsed \in P, msg \in M, ex \in A \cup {NoAnswers} :
       LET r == handle_new_signal(parsed, msg, ex)
       IN  /\ IF r.calls = <<>> THEN ex = NoAnswers ELSE ex \in A
           /\ signals' = r.signals
           /\ positions' = r.positions
           /\ orders' = r.orders
           /\ calls' = r.calls
           /\ ev' = [kind |-> "new_signal", parsed |-> parsed, msg |-> msg,
                      ex |-> ex, outcome |-> r.outcome,
                      raised |-> (r.outcome = "raised")]
  /\ UNCHANGED <<updates, sync, pnl, tasks, signed>>

\* the same event for a message delivered for the first time
NewSignalOver(P, A, max) == NewSignalMsg(P, A, {FreshMessage}, max)

\* ------------------------------------------- the listener's handler tasks
\* The client is built without sequential_updates, so every NewMessage event
\* runs the registered handler in a task of its own; a task gives way at each
\* await.  Here it gives way after the capacity check (await ...acount()) and
\* runs the rest of handle_new_signal in one step.

\* a new_signal message arrives: handler(event) is started for it and awaits
\* the parser
Dispatch(P) ==
  /\ Len(tasks) < MaxTasks
  /\ \E parsed \in P :
       tasks' = Append(tasks, [pc |-> "parsing", parsed |-> parsed,
                               msg |-> Len(tasks) + 1])
  /\ UNCHANGED <<signals, updates, positions, orders, calls, ev, sync, pnl, signed>>

\* task t enters handle_new_signal: lines 40-63, up to the capacity check
Admit(t) ==
  LET parsed == tasks[t].parsed
      outcome == IF ~IsComplete(parsed) THEN "incomplete"
                 ELSE IF AtCapacity(positions) THEN "capacity"
                 ELSE "admitted"
  IN  /\ tasks[t].pc = "parsing"
      /\ tasks' = [tasks EXCEPT ![t].pc = IF outcome = "admitted" THEN "admitted"
                                          ELSE "returned"]
      /\ IF outcome = "admitted" THEN UNCHANGED <<calls, ev>>
         ELSE /\ calls' = <<>>
              /\ ev' = [kind |-> "new_signal", parsed |-> parsed,
                         msg |-> tasks[t].msg, ex |-> NoAnswers,
                         outcome |-> outcome, raised |-> FALSE]
      /\ UNCHANGED <<signals, updates, positions, orders, sync, pnl, signed>>

\* task t runs handle_new_signal from line 65 to its return
Complete(t, A) ==
  /\ tasks[t].pc = "admitted"
  /\ \E ex \in A :
       LET r == Execute(tasks[t].parsed, tasks[t].msg, ex)
       IN  /\ signals' = r.signals
           /\ positions' = r.positions
           /\ orders' = r.orders
           /\ calls' = r.calls
           /\ ev' = [kind |-> "new_signal", parsed |-> tasks[t].parsed,
                      msg |-> tasks[t].msg, ex |-> ex, outcome |-> r.outcome,
                      raised |-> (r.outcome = "raised")]
  /\ tasks' = [tasks EXCEPT ![t].pc = "returned"]
  /\ UNCHANGED <<updates, sync, pnl, signed>>

\* ------------------------------------------------------ handle_update pieces
\* the greatest index satisfying P: afirst() under Meta ordering -created_at
Latest(S) == IF S = {} THEN 0 ELSE CHOOSE i \in S : \A j \in S : j <= i

\* the same query without the status filter
ActiveSignals_AnyStatus == 1..Len(signals)

ActiveSignals ==
  {i \in 1..Len(signals) :
     signals[i].status \in {SignalStatus.ACTIVE, SignalStatus.NEW}}

\* _find_active_signal(symbol); symbol = <<>> is None; 0 is "no Signal"
_find_active_signal(symbol) ==
  IF Truthy(symbol)
  THEN LET exact == {i \in ActiveSignals :
                       IExact(signals[i].symbol, StrReplace(symbol, USDT, SLASH \o USDT))}
           fuzzy == {i \in ActiveSignals :
                       IContains(signals[i].symbol, StrReplace(symbol, USDT, <<>>))}
       IN  IF exact # {} THEN Latest(exact) ELSE Latest(fuzzy)
  ELSE Latest(ActiveSignals)

\* Position.objects.filter(signal=signal, status__in=statuses).afirst()
PositionOf(sig, statuses) ==
  Latest({i \in 1..Len(positions) :
            positions[i].signal = sig /\ positions[i].status \in statuses})

HANDLED == {"entry_hit", "tp_hit", "risk_free", "partial_close", "full_close",
            "position_closed", "sl_modified"}

UpdateRow(sig, parsed, msg) ==
  [signal |-> sig, telegram_msg_id |-> msg, update_type |-> parsed.message_type,
   close_percentage |-> Get(parsed, "close_percentage", None),
   new_stop_loss |-> Get(parsed, "new_stop_loss", None)]

\* the same row on the opening side
CloseOrderRow_OpenSide(pos, direction, quantity) ==
  [position        |-> pos,
   side            |-> OpenSide(direction),
   order_type      |-> "market",
   price           |-> None,
   quantity        |-> ToColumn(quantity),
   filled_quantity |-> 0,
   filled_price    |-> None,
   status          |-> OrderStatus.SUBMITTED]

CloseOrderRow(pos, direction, quantity) ==
  [position        |-> pos,
   side            |-> CloseSide(direction),
   order_type      |-> "market",
   price           |-> None,
   quantity        |-> ToColumn(quantity),
   filled_quantity |-> 0,
   filled_price    |-> None,
   status          |-> OrderStatus.SUBMITTED]

CloseCall(symbol, direction, quantity) ==
  Call("place_order", symbol, CloseSide(direction), Round4(quantity), None)

\* the result of a handler that changes nothing
NoChange ==
  [signals |-> signals, positions |-> positions, orders |-> orders, calls |-> <<>>]

\* the same handler issuing the refused call a second time
Failed_Retry(call) == [NoChange EXCEPT !.calls = <<call, call>>]

\* except Exception: logger.error(...)  after the exchange refused the call
Failed(call) == [NoChange EXCEPT !.calls = <<call>>]

\* an exception raised outside the try block of a handler
Raised == NoChange @@ [raised |-> TRUE]

\* _handle_risk_free and _handle_sl_modified after the Position lookup
MoveStopLoss(sig, new_sl, ok) ==
  LET pos == PositionOf(sig, {PositionStatus.OPEN, PositionStatus.PENDING})
      symbol == NormalizeSymbol(signals[sig].symbol)
      call == StopLossCall(symbol, signals[sig].direction, Some(new_sl))
  IN  IF pos = 0 THEN NoChange
      ELSE IF ~ok THEN Failed(call)
      ELSE [NoChange EXCEPT
              !.positions = [positions EXCEPT ![pos].current_stop_loss = Some(new_sl)],
              !.calls = <<call>>]

_handle_risk_free(sig, parsed, ok) ==
  MoveStopLoss(sig, signals[sig].entry_price_low, ok)

_handle_sl_modified(sig, parsed, ok) ==
  IF ~Truthy(Get(parsed, "new_stop_loss", None)) THEN NoChange
  ELSE MoveStopLoss(sig, parsed.new_stop_loss[1], ok)

\* close_pct = parsed.get("close_percentage", 50): None when the key holds null
ClosePercentage(parsed) ==
  Get(parsed, "close_percentage", Some(DEFAULT_CLOSE_PERCENTAGE))

\* close_qty = remaining_quantity * Decimal(str(close_pct)) / Decimal("100")
CloseQty(remaining_quantity, close_pct) ==
  Dec(remaining_quantity * close_pct, 100, DECIMAL_PLACES)

\* remaining_quantity - close_qty
Remainder(remaining_quantity, close_qty) ==
  Dec(remaining_quantity * close_qty.den - close_qty.num, close_qty.den, DECIMAL_PLACES)

_handle_partial_close(sig, parsed, ok) ==
  LET pos == PositionOf(sig, {PositionStatus.OPEN, PositionStatus.PENDING})
      symbol == NormalizeSymbol(signals[sig].symbol)
      direction == signals[sig].direction
      close_pct == ClosePercentage(parsed)
      close_qty == CloseQty(positions[pos].remaining_quantity, close_pct[1])
      left == Remainder(positions[pos].remaining_quantity, close_qty)
      call == CloseCall(symbol, direction, close_qty)
  IN  IF pos = 0 THEN NoChange
      ELSE IF close_pct = None THEN Raised
      ELSE IF ~ok THEN Failed(call)
      ELSE [NoChange EXCEPT
              !.orders = Append(orders, CloseOrderRow(pos, direction, close_qty)),
              !.positions = [positions EXCEPT
                 ![pos].remaining_quantity = ToColumn(left),
                 ![pos].status = IF left.num <= 0 THEN PositionStatus.CLOSED
                                 ELSE PositionStatus.PARTIALLY_CLOSED,
                 ![pos].closed_at = IF left.num <= 0 THEN TRUE ELSE @],
              !.calls = <<call>>]

_handle_full_close(sig, parsed, ok) ==
  LET pos == PositionOf(sig, {PositionStatus.OPEN, PositionStatus.PENDING,
                               PositionStatus.PARTIALLY_CLOSED})
      symbol == NormalizeSymbol(signals[sig].symbol)
      direction == signals[sig].direction
      remaining == FromColumn(positions[pos].remaining_quantity)
      call == CloseCall(symbol, direction, remaining)
  IN  IF pos = 0 THEN NoChange
      ELSE IF ~ok THEN Failed(call)
      ELSE [NoChange EXCEPT
              !.orders = Append(orders, CloseOrderRow(pos, direction, remaining)),
              !.positions = [positions EXCEPT
                 ![pos].remaining_quantity = 0,
                 ![pos].status = PositionStatus.CLOSED,
                 ![pos].closed_at = TRUE],
              !.signals = SetStatus(signals, sig, SignalStatus.CLOSED),
              !.calls = <<call>>]

\* logger.info(...) only
_handle_entry_hit(sig, parsed, ok) == NoChange

\* the same handler closing the Position when a target is reached
_handle_tp_hit_AutoClose(sig, parsed, ok) == _handle_full_close(sig, parsed, ok)

\* logger.info(...) only: the channel sends explicit close instructions
_handle_tp_hit(sig, parsed, ok) == NoChange

Handler(msg_type, sig, parsed, ok) ==
  CASE msg_type = "entry_hit" -> _handle_entry_hit(sig, parsed, ok)
    [] msg_type = "tp_hit" -> _handle_tp_hit(sig, parsed, ok)
    [] msg_type = "risk_free" -> _handle_risk_free(sig, parsed, ok)
    [] msg_type = "partial_close" -> _handle_partial_close(sig, parsed, ok)
    [] msg_type \in {"full_close", "position_closed"} -> _handle_full_close(sig, parsed, ok)
    [] msg_type = "sl_modified" -> _handle_sl_modified(sig, parsed, ok)
    [] OTHER -> NoChange

\* the same return with the update recorded against no Signal
Dropped_Recorded(parsed, msg) ==
  NoChange @@ [updates |-> Append(updates, UpdateRow(0, parsed, msg)),
               signal |-> 0, raised |-> FALSE]

\* if not signal: logger.warning(...); return
Dropped(parsed, msg) ==
  NoChange @@ [updates |-> updates, signal |-> 0, raised |-> FALSE]

\* handle_update(parsed, telegram_msg); msg is telegram_msg.id, ok is the answer
\* of the exchange to the handler's call, if it issues one; raised is an
\* exception that leaves the coroutine
handle_update(parsed, msg, ok) ==
  LET symbol == IF Truthy(parsed.symbol) THEN NormalizeSymbol(parsed.symbol) ELSE <<>>
      sig == _find_active_signal(symbol)
  IN  IF sig = 0 THEN Dropped(parsed, msg)
      ELSE IF parsed.message_type \notin HANDLED
        THEN NoChange @@ [updates |-> updates, signal |-> sig, raised |-> FALSE]
      ELSE IF msg \in MessageIds(updates)
        THEN Raised @@ [updates |-> updates, signal |-> sig]
      ELSE Handler(parsed.message_type, sig, parsed, ok)
             @@ [updates |-> Append(updates, UpdateRow(sig, parsed, msg)),
                 signal |-> sig, raised |-> FALSE]

UpdateBase(msg_type, symbol) ==
  [message_type |-> msg_type, symbol |-> symbol,
   close_percentage |-> None, new_stop_loss |-> None]

\* the payload without one of its keys
Without(d, key) == [k \in DOMAIN d \ {key} |-> d[k]]

UpdateSymbols == {ETH_USDT, btc_usdt, <<>>}
ClosePercentages == {50, 100, 150, -50}

ParsedUpdates ==
  { UpdateBase(t, s) : t \in HANDLED \cup {"unknown"}, s \in UpdateSymbols }
  \cup { [UpdateBase("partial_close", s) EXCEPT !.close_percentage = Some(p)] :
           s \in UpdateSymbols, p \in ClosePercentages }
  \cup { [UpdateBase("sl_modified", s) EXCEPT !.new_stop_loss = Some(19500)] :
           s \in UpdateSymbols }

\* one update event, its payload drawn from U and its message id from M, while
\* fewer than max SignalUpdates exist
UpdateMsg(U, M, max) ==
  /\ Len(updates) < max
  /\ \E parsed \in U, msg \in M, ok \in BOOLEAN :
       LET r == handle_update(parsed, msg, ok)
       IN  /\ r.calls = <<>> => ok
           /\ signals' = r.signals
           /\ updates' = r.updates
           /\ positions' = r.positions
           /\ orders' = r.orders
           /\ calls' = r.calls
           /\ ev' = [kind |-> "update", parsed |-> parsed, msg |-> msg, ok |-> ok,
                     signal |-> r.signal, raised |-> r.raised]
  /\ UNCHANGED <<sync, pnl, tasks, signed>>

\* the same event for a message delivered for the first time
UpdateOver(U, max) == UpdateMsg(U, {FreshMessage}, max)

\* ----------------------------- a stop-loss handler between its awaits
\* handle_update runs in the listener's process and the sweeps in a worker's,
\* so a sweep may run while a handler awaits the exchange.  _handle_risk_free
\* and _handle_sl_modified load the Position, await set_stop_loss, and then
\* save the object they loaded.

\* the updates that move the stop loss
MoveUpdates ==
  { UpdateBase("risk_free", ETH_USDT),
    [UpdateBase("sl_modified", <<>>) EXCEPT !.new_stop_loss = Some(19500)] }

\* handle_update for such an update, up to the await of set_stop_loss (lines
\* 163-209, then 229-245 or 352-370), when a Signal and its Position are found
MoveBegin ==
  /\ Len(updates) < MaxUpdates
  /\ \E parsed \in MoveUpdates :
       LET symbol == IF Truthy(parsed.symbol) THEN NormalizeSymbol(parsed.symbol)
                     ELSE <<>>
           sig == _find_active_signal(symbol)
           pos == PositionOf(sig, {PositionStatus.OPEN, PositionStatus.PENDING})
           new_sl == IF parsed.message_type = "risk_free"
                     THEN Some(signals[sig].entry_price_low)
                     ELSE parsed.new_stop_loss
       IN  /\ sig # 0
           /\ pos # 0
           /\ updates' = Append(updates, UpdateRow(sig, parsed, FreshMessage))
           /\ calls' = <<StopLossCall(NormalizeSymbol(signals[sig].symbol),
                                      signals[sig].direction, new_sl)>>
           /\ ev' = [kind |-> "update", parsed |-> parsed, msg |-> FreshMessage,
                     ok |-> TRUE, signal |-> sig, raised |-> FALSE]
           /\ tasks' = Append(tasks, [pc |-> "calling", id |-> pos,
                                      position |-> positions[pos], new_sl |-> new_sl])
  /\ UNCHANGED <<signals, positions, orders, sync, pnl, signed>>

\* set_stop_loss answers: position.current_stop_loss = new_sl and
\* position.asave() of the object loaded before the await (lines 246-247,
\* 371-372), or the except branch
MoveEnd ==
  /\ \E t \in 1..Len(tasks), ok \in BOOLEAN :
       /\ tasks[t].pc = "calling"
       /\ positions' =
            IF ok THEN [positions EXCEPT ![tasks[t].id] =
                          [tasks[t].position EXCEPT !.current_stop_loss = tasks[t].new_sl]]
            ELSE positions
       /\ tasks' = [tasks EXCEPT ![t].pc = "returned"]
  /\ UNCHANGED <<signals, updates, orders, calls, ev, sync, pnl, signed>>

\* ------------------------------------------------------------ _sync_orders
\* indices of rows satisfying P, most recent first (Meta ordering -created_at)
RECURSIVE NewestFirst(_)
NewestFirst(S) ==
  IF S = {} THEN <<>> ELSE <<Latest(S)>> \o NewestFirst(S \ {Latest(S)})

PendingOrders ==
  {k \in 1..Len(orders) :
     orders[k].status \in {OrderStatus.SUBMITTED, OrderStatus.PARTIALLY_FILLED}}

\* what get_order answers for one Order: it raises, or reports a status and
\* possibly an avgPrice
OrderAnswers ==
  { [status |-> "error", avgPrice |-> None],
    [status |-> "open", avgPrice |-> None],
    [status |-> "cancelled", avgPrice |-> None],
    [status |-> "filled", avgPrice |-> None],
    [status |-> "completed", avgPrice |-> Some(19660)] }

\* an avgPrice no DecimalField accepts (a string that is not a number)
Unusable == <<0, 0>>

\* an answer whose avgPrice makes order.asave() raise
SaveFailures == { [status |-> "filled", avgPrice |-> Unusable] }

\* the loop body raises for this answer: get_order raised, or the Order could
\* not be saved
Raises(data) ==
  \/ data.status = "error"
  \/ data.status \in {"filled", "completed"} /\ data.avgPrice = Unusable

\* the queryset is evaluated once, when the iteration starts: every Order in
\* SUBMITTED / PARTIALLY_FILLED with its Position (select_related) as of then
SyncStartOf(w) ==
  /\ sync[w].pc = "idle"
  /\ PendingOrders # {}
  /\ sync' = [sync EXCEPT ![w] =
       [pc |-> "run", errors |-> 0,
        rows |-> LET ids == NewestFirst(PendingOrders)
                 IN  [n \in 1..Len(ids) |->
                        [id |-> ids[n], order |-> orders[ids[n]],
                         position |-> positions[orders[ids[n]].position]]]]]
  /\ UNCHANGED <<signals, updates, positions, orders, calls, ev, pnl, tasks, signed>>

\* the sweep of the first worker
SyncStart == SyncStartOf(1)

FilledOrder(order, data) ==
  [order EXCEPT !.status = OrderStatus.FILLED,
                !.filled_quantity = order.quantity,
                !.filled_price = IF data.avgPrice = None THEN order.price
                                 ELSE data.avgPrice]

PromotedPosition(position, order) ==
  [position EXCEPT !.status = PositionStatus.OPEN,
                   !.entry_price = order.filled_price,
                   !.opened_at = TRUE]

\* the body of the loop for one Order of the queryset: the rows written are
\* the objects loaded when the sweep started
SyncOrder(row, data) ==
  LET filled == FilledOrder(row.order, data)
  IN  IF Raises(data) THEN UNCHANGED <<orders, positions>>
      ELSE IF data.status \in {"filled", "completed"}
        THEN /\ orders' = [orders EXCEPT ![row.id] = filled]
             /\ positions' =
                  IF row.position.status = PositionStatus.PENDING
                    THEN [positions EXCEPT ![row.order.position] =
                            PromotedPosition(row.position, filled)]
                    ELSE positions
      ELSE IF data.status = "cancelled"
        THEN /\ orders' = [orders EXCEPT ![row.id] =
                             [row.order EXCEPT !.status = OrderStatus.CANCELLED]]
             /\ positions' = positions
      ELSE UNCHANGED <<orders, positions>>

\* the same loop leaving at the first Order that raises
Continue_AbortOnError(sweep, data) ==
  IF Len(sweep.rows) = 1 \/ Raises(data) THEN Idle
  ELSE [sweep EXCEPT !.rows = Tail(@)]

\* except Exception: logger.error(...), then the next Order of the queryset;
\* errors counts the Orders of this sweep that raised
Continue(sweep, data) ==
  IF Len(sweep.rows) = 1 THEN Idle
  ELSE [sweep EXCEPT !.rows = Tail(@),
                     !.errors = IF Raises(data) THEN @ + 1 ELSE @]

\* one iteration of the loop of sweep w, get_order answering from A
SyncStepOf(w, A) ==
  /\ sync[w].pc = "run"
  /\ \E data \in A :
       /\ SyncOrder(Head(sync[w].rows), data)
       /\ sync' = [sync EXCEPT ![w] = Continue(@, data)]
  /\ UNCHANGED <<signals, updates, calls, ev, pnl, tasks, signed>>

SyncStepOver(A) == SyncStepOf(1, A)

\* the answers get_order can give for Order k once the exchange has reported
\* it filled or cancelled: an order that is done on the exchange stays so
StableAnswers(k) ==
  {data \in OrderAnswers :
     /\ orders[k].status = OrderStatus.FILLED
          => data.status \in {"error", "filled", "completed"}
     /\ orders[k].status = OrderStatus.CANCELLED
          => data.status \in {"error", "cancelled"}}

\* --------------------------------------------------------------- _sync_pnl
OpenPositions ==
  {i \in 1..Len(positions) :
     positions[i].status \in {PositionStatus.OPEN, PositionStatus.PARTIALLY_CLOSED}}

LowerSide(side) ==
  CASE side = "LONG" -> "long" [] side = "SHORT" -> "short" [] OTHER -> side

\* what get_positions answers for one symbol: it raises, or a list of entries
PositionAnswers ==
  { [error |-> TRUE, data |-> <<>>],
    [error |-> FALSE, data |-> <<>>],
    [error |-> FALSE, data |-> <<[side |-> "SHORT", unrealizedPnl |-> 7],
                                  [side |-> "LONG", unrealizedPnl |-> 5]>>] }

PnlStart ==
  /\ pnl.pc = "idle"
  /\ OpenPositions # {}
  /\ pnl' = [pc |-> "run",
             rows |-> LET ids == NewestFirst(OpenPositions)
                      IN  [n \in 1..Len(ids) |->
                             [id |-> ids[n], position |-> positions[ids[n]]]]]
  /\ UNCHANGED <<signals, updates, positions, orders, calls, ev, sync, tasks, signed>>

\* the first entry whose side matches, 0 if none
MatchingEntry(position, data) ==
  LET hits == {n \in 1..Len(data) : LowerSide(data[n].side) = position.side}
  IN  IF hits = {} THEN 0 ELSE CHOOSE n \in hits : \A m \in hits : n <= m

SyncPosition(row, answer) ==
  LET n == MatchingEntry(row.position, answer.data)
  IN  IF answer.error \/ n = 0 THEN UNCHANGED positions
      ELSE positions' = [positions EXCEPT ![row.id] =
             [row.position EXCEPT !.unrealized_pnl = answer.data[n].unrealizedPnl]]

PnlStepOver(A) ==
  /\ pnl.pc = "run"
  /\ \E answer \in A : SyncPosition(Head(pnl.rows), answer)
  /\ pnl' = IF Len(pnl.rows) = 1 THEN Idle
            ELSE [pnl EXCEPT !.rows = Tail(@)]
  /\ UNCHANGED <<signals, updates, orders, calls, ev, sync, tasks, signed>>

\* ------------------------------------------------ LBankFuturesClient._sign
\* A dict is the sequence of its <<key, value>> items in insertion order, with
\* distinct keys; keys and values are str, as in every request the client
\* builds.  A digest is the value determined by what was digested.

\* ord(c), for the characters of the parameter names
Ord(c) ==
  CASE c = "P" -> 80 [] c = "_" -> 95 [] c = "a" -> 97 [] c = "b" -> 98
    [] c = "c" -> 99 [] c = "d" -> 100 [] c = "e" -> 101 [] c = "g" -> 103
    [] c = "h" -> 104 [] c = "i" -> 105 [] c = "k" -> 107 [] c = "l" -> 108
    [] c = "m" -> 109 [] c = "n" -> 110 [] c = "o" -> 111 [] c = "p" -> 112
    [] c = "r" -> 114 [] c = "s" -> 115 [] c = "t" -> 116 [] c = "u" -> 117
    [] c = "y" -> 121

\* a < b for str
RECURSIVE StrLess(_, _)
StrLess(a, b) ==
  IF b = <<>> THEN FALSE
  ELSE IF a = <<>> THEN TRUE
  ELSE IF a[1] = b[1] THEN StrLess(Tail(a), Tail(b))
  ELSE Ord(a[1]) < Ord(b[1])

RECURSIVE Insert(_, _)
Insert(k, sorted) ==
  IF sorted = <<>> THEN <<k>>
  ELSE IF StrLess(k, sorted[1]) THEN <<k>> \o sorted
  ELSE <<sorted[1]>> \o Insert(k, Tail(sorted))

\* sorted(keys)
RECURSIVE Sorted(_)
Sorted(keys) ==
  IF keys = <<>> THEN <<>> ELSE Insert(keys[1], Sorted(Tail(keys)))

\* params.keys(), in insertion order
Keys(params) == [n \in 1..Len(params) |-> params[n][1]]

\* params[k]
Lookup(params, k) ==
  params[CHOOSE n \in 1..Len(params) : params[n][1] = k][2]

\* the same keys as they were inserted
SortedKeys_Insertion(params) == Keys(params)

\* sorted_keys = sorted(params.keys())
SortedKeys(params) == Sorted(Keys(params))

\* sep.join(parts)
RECURSIVE Join(_, _)
Join(sep, parts) ==
  IF parts = <<>> THEN <<>>
  ELSE IF Len(parts) = 1 THEN parts[1]
  ELSE parts[1] \o sep \o Join(sep, Tail(parts))

\* query = "&".join(f"{k}={params[k]}" for k in sorted_keys)
Query(params) ==
  LET sorted_keys == SortedKeys(params)
  IN  Join(<<"&">>, [n \in 1..Len(sorted_keys) |->
                       sorted_keys[n] \o <<"=">> \o Lookup(params, sorted_keys[n])])

\* hashlib.md5(query.encode()).hexdigest().upper()
Md5Upper(text) == [md5 |-> text]

\* hmac.new(key, msg, hashlib.sha256).hexdigest()
HmacSha256(key, msg) == [key |-> key, msg |-> msg]

_sign(params, secret_key) == HmacSha256(secret_key, Md5Upper(Query(params)))

SignKeys ==
  { <<"s", "i", "d", "e">>, <<"s", "y", "m", "b", "o", "l">>,
    <<"s", "t", "o", "p", "P", "r", "i", "c", "e">> }
SignValues == { <<>>, <<"l", "o", "n", "g">> }
SecretKeys == { <<"k", "1">>, <<"k", "2">> }

\* the dicts of at most MaxParams items
Dicts ==
  UNION { { d \in [1..n -> SignKeys \X SignValues] :
              \A i, j \in 1..n : i # j => d[i][1] # d[j][1] } :
          n \in 1..MaxParams }

\* two requests are about to be signed
InitSign ==
  /\ signals = <<>>
  /\ updates = <<>>
  /\ positions = <<>>
  /\ orders = <<>>
  /\ calls = <<>>
  /\ ev = NoEvent
  /\ sync = [w \in 1..MaxSweeps |-> Idle]
  /\ pnl = Idle
  /\ tasks = <<>>
  /\ signed \in [1..2 -> [params : Dicts, secret_key : SecretKeys]]

\* sign = self._sign(params) for request n
Sign(n) ==
  /\ n \in DOMAIN signed
  /\ "signature" \notin DOMAIN signed[n]
  /\ signed' = [signed EXCEPT ![n] =
       [params |-> @.params, secret_key |-> @.secret_key,
        query |-> Query(@.params),
        signature |-> _sign(@.params, @.secret_key)]]
  /\ UNCHANGED <<signals, updates, positions, orders, calls, ev, sync, pnl, tasks>>

\* ------------------------------------- LBankFuturesClient._post and ._get
\* A request is the dict the caller built (data), the dict that is sent
\* (params: the same object after _auth_headers has written to it) and the
\* headers, a dict as well.

\* the names _auth_headers writes
AuthKey ==
  [api_key          |-> <<"a", "p", "i", "_", "k", "e", "y">>,
   signature_method |-> <<"s", "i", "g", "n", "a", "t", "u", "r", "e", "_",
                          "m", "e", "t", "h", "o", "d">>,
   timestamp        |-> <<"t", "i", "m", "e", "s", "t", "a", "m", "p">>,
   echostr          |-> <<"e", "c", "h", "o", "s", "t", "r">>,
   sign             |-> <<"s", "i", "g", "n">>]

\* the client as __init__ leaves it
Client ==
  [api_key          |-> <<"a", "k">>,
   secret_key       |-> <<"k", "1">>,
   signature_method |-> <<"H", "m", "a", "c", "S", "H", "A", "2", "5", "6">>]

\* params[k] = v: the value of an existing key is replaced where it stands, a
\* new key goes last
SetItem(params, k, v) ==
  IF \E n \in 1..Len(params) : params[n][1] = k
  THEN [n \in 1..Len(params) |-> IF params[n][1] = k THEN <<k, v>> ELSE params[n]]
  ELSE Append(params, <<k, v>>)

\* "".join(random.choices(...ascii_letters + digits, k=length)): some of the
\* strings it may return
_echostr(length) ==
  { [n \in 1..length |-> IF n % 2 = 1 THEN c ELSE d] : c, d \in {"a", "7"} }

\* str(int(time.time() * 1000)), at two instants
Timestamps == { <<"1">>, <<"2">> }

\* the same function signing before the timestamp and echostr are written
_auth_headers_SignFirst(params, ts, echostr) ==
  LET keyed == SetItem(SetItem(params, AuthKey.api_key, Client.api_key),
                       AuthKey.signature_method, Client.signature_method)
      stamped == SetItem(SetItem(keyed, AuthKey.timestamp, ts),
                         AuthKey.echostr, echostr)
      sign == _sign(keyed, Client.secret_key)
  IN  [params  |-> SetItem(stamped, AuthKey.sign, sign),
       headers |-> << <<AuthKey.timestamp, ts>>,
                      <<AuthKey.signature_method, Client.signature_method>>,
                      <<AuthKey.echostr, echostr>> >>]

\* _auth_headers(params) with ts and echostr as drawn: the dict it was given
\* after its writes, and the headers it returns (Content-Type left out)
_auth_headers(params, ts, echostr) ==
  LET keyed == SetItem(SetItem(params, AuthKey.api_key, Client.api_key),
                       AuthKey.signature_method, Client.signature_method)
      stamped == SetItem(SetItem(keyed, AuthKey.timestamp, ts),
                         AuthKey.echostr, echostr)
      sign == _sign(stamped, Client.secret_key)
  IN  [params  |-> SetItem(stamped, AuthKey.sign, sign),
       headers |-> << <<AuthKey.timestamp, ts>>,
                      <<AuthKey.signature_method, Client.signature_method>>,
                      <<AuthKey.echostr, echostr>> >>]

\* _post(path, data): what is handed to self._http.post
_post(data, ts, echostr) ==
  LET a == _auth_headers(data, ts, echostr)
  IN  [auth |-> TRUE, data |-> data, params |-> a.params, headers |-> a.headers]

\* _get(path, params, auth): what is handed to self._http.get
_get(params, auth, ts, echostr) ==
  IF auth
  THEN LET a == _auth_headers(params, ts, echostr)
       IN  [auth |-> TRUE, data |-> params, params |-> a.params, headers |-> a.headers]
  ELSE [auth |-> FALSE, data |-> params, params |-> params, headers |-> <<>>]

\* a private endpoint is called: every one of them goes through _post
Post ==
  /\ \E data \in Dicts \cup {<<>>}, ts \in Timestamps, echostr \in _echostr(35) :
       signed' = <<_post(data, ts, echostr)>>
  /\ UNCHANGED <<signals, updates, positions, orders, calls, ev, sync, pnl, tasks>>

\* a public endpoint is called: every one of them goes through _get with
\* auth left at False
GetPublic ==
  /\ \E params \in Dicts \cup {<<>>}, ts \in Timestamps, echostr \in _echostr(35) :
       signed' = <<_get(params, FALSE, ts, echostr)>>
  /\ UNCHANGED <<signals, updates, positions, orders, calls, ev, sync, pnl, tasks>>

\* ----------------------------------------------------------- specifications
\* the payloads of the interleaved specification
CoreSignals == {ScenarioA}
CoreAnswers == {ex \in NewSignalAnswers : ex.fail \in {0, 5} /\ ex.balance = 10}
CoreUpdates ==
  { UpdateBase("full_close", ETH_USDT),
    [UpdateBase("partial_close", <<>>) EXCEPT !.close_percentage = Some(50)] }
CoreOrderAnswers == {data \in OrderAnswers : data.status \in {"open", "cancelled", "filled"}}

NewSignal == NewSignalOver(CoreSignals, CoreAnswers, SweepSignals)
Update == UpdateOver(CoreUpdates, SweepUpdates)
SyncStep == SyncStepOver(CoreOrderAnswers)
PnlStep == PnlStepOver(PositionAnswers)

Next == NewSignal \/ Update \/ SyncStart \/ SyncStep \/ PnlStart \/ PnlStep

\* events and both sweeps, interleaved
Spec == Init /\ [][Next]_vars

\* the same interleaving over longer event sequences
RaceSignal == NewSignalOver(CoreSignals, CoreAnswers, MaxSignals)
RaceUpdate == UpdateOver(CoreUpdates, MaxUpdates)
NextRace == RaceSignal \/ RaceUpdate \/ SyncStart \/ SyncStep \/ PnlStart \/ PnlStep
SpecRace == Init /\ [][NextRace]_vars

\* new_signal events alone, over every payload and every exchange answer
SignalEvent == NewSignalOver(ParsedSignals, NewSignalAnswers, MaxSignals)
NextSignal == SignalEvent
SpecSignal == Init /\ [][NextSignal]_vars

\* executed signals followed by close updates of every percentage
CloseSignals == {ScenarioA, ShortBtc}
CloseAnswers == {ex \in NewSignalAnswers : ex.fail = 0 /\ ex.balance = 10}
CloseUpdates ==
  { UpdateBase(t, s) : t \in {"partial_close", "full_close", "position_closed"},
                       s \in {ETH_USDT, <<>>} }
  \cup { [UpdateBase("partial_close", ETH_USDT) EXCEPT !.close_percentage = Some(p)] :
           p \in ClosePercentages }
ExecutedSignal == NewSignalOver(CloseSignals, CloseAnswers, MaxSignals)
CloseUpdate == UpdateOver(CloseUpdates, MaxUpdates)
NextClose == ExecutedSignal \/ CloseUpdate
SpecClose == Init /\ [][NextClose]_vars

\* an executed signal, its entry Order reconciled, and the updates that close
\* its Position
FinalUpdates ==
  { UpdateBase("full_close", ETH_USDT), UpdateBase("position_closed", <<>>),
    [UpdateBase("partial_close", <<>>) EXCEPT !.close_percentage = Some(50)] }
FilledSignal == NewSignalOver(CloseSignals, CloseAnswers, SweepSignals)
FinalUpdate == UpdateOver(FinalUpdates, MaxUpdates)
NextFinal == FilledSignal \/ FinalUpdate \/ SyncStart \/ SyncStep
SpecFinal == Init /\ [][NextFinal]_vars

\* events of every kind, each message possibly delivered again
EventSignals == {ScenarioA, ShortBtc}
EventUpdates ==
  { UpdateBase(t, ETH_USDT) : t \in {"risk_free", "partial_close", "full_close"} }
  \cup { UpdateBase("position_closed", <<>>),
         [UpdateBase("sl_modified", ETH_USDT) EXCEPT !.new_stop_loss = Some(19500)],
         Without(UpdateBase("partial_close", <<>>), "close_percentage") }
\* a message is new, or is the newest stored one delivered again
Delivered(rows) ==
  {FreshMessage} \cup
  { rows[i].telegram_msg_id : i \in {j \in 1..Len(rows) : j = Len(rows)} }
SignalMessage ==
  NewSignalMsg(EventSignals, CloseAnswers, Delivered(signals), MaxSignals)
UpdateMessage == UpdateMsg(EventUpdates, Delivered(updates), MaxUpdates)
NextEvents == SignalMessage \/ UpdateMessage
SpecEvents == Init /\ [][NextEvents]_vars

\* new_signal messages, each handled by a task of its own
TaskSignals == {ScenarioA, ShortBtc, ZeroDistance}
Arrive == Dispatch(TaskSignals)
Enter == \E t \in 1..Len(tasks) : Admit(t)
Finish == \E t \in 1..Len(tasks) : Complete(t, CoreAnswers)
NextTasks == Arrive \/ Enter \/ Finish
SpecTasks == Init /\ [][NextTasks]_vars

\* an executed signal, partial closes of every percentage, and Reconciliation
\* sweeps that overlap
SweepUpdate ==
  UpdateOver({[UpdateBase("partial_close", ETH_USDT) EXCEPT !.close_percentage = Some(p)] :
                p \in ClosePercentages}, SweepUpdates)
AnySyncStart == \E w \in 1..MaxSweeps : SyncStartOf(w)
AnySyncStep ==
  \E w \in 1..MaxSweeps :
     /\ sync[w].pc = "run"
     /\ SyncStepOf(w, StableAnswers(Head(sync[w].rows).id))
NextSweeps == FilledSignal \/ SweepUpdate \/ AnySyncStart \/ AnySyncStep
SpecSweeps == Init /\ [][NextSweeps]_vars

\* two requests, signed in either order
SignFirst == Sign(1)
SignSecond == Sign(2)
NextSign == SignFirst \/ SignSecond
SpecSign == InitSign /\ [][NextSign]_vars

\* new_signal events whose place_order is answered with every shape of
\* response
PlaceOrderResults ==
  { WellFormed, [data |-> Some([symbol |-> "ETHUSDT"])], [data |-> None],
    [result |-> TRUE] }
ShapedAnswers ==
  { [fail |-> 0, balance |-> 10, placed |-> r] : r \in PlaceOrderResults }
ShapedEvent ==
  NewSignalOver(ParsedSignals, NewSignalAnswers \cup ShapedAnswers, MaxSignals)
NextShaped == ShapedEvent
SpecShaped == Init /\ [][NextShaped]_vars

\* requests to private and to public endpoints; signed holds the last one
NextRequest == Post \/ GetPublic
SpecRequest == Init /\ [][NextRequest]_vars

\* executed signals followed by informational updates, each message possibly
\* delivered again
InfoUpdates ==
  { UpdateBase(t, s) : t \in {"entry_hit", "tp_hit"}, s \in {ETH_USDT, <<>>} }
  \cup { UpdateBase("full_close", ETH_USDT) }
InfoUpdate == UpdateMsg(InfoUpdates, Delivered(updates), MaxUpdates)
NextInfo == ExecutedSignal \/ InfoUpdate
SpecInfo == Init /\ [][NextInfo]_vars

\* the events of the interleaved specification and a Reconciliation sweep in
\* which any Order may fail to be fetched or saved
ReconAnswers == OrderAnswers \cup SaveFailures
ReconStep == SyncStepOver(ReconAnswers)
NextRecon == RaceSignal \/ Update \/ SyncStart \/ ReconStep
SpecRecon == Init /\ [][NextRecon]_vars

\* signals whose symbols are written in several ways, and updates naming a
\* symbol or none
MatchSignals ==
  { [ScenarioA EXCEPT !.symbol = sym] : sym \in {ETH_USDT, ETHUSDT, ETHW_USDT, eth_usdt} }
  \cup { [ZeroDistance EXCEPT !.symbol = sym] : sym \in {ETH_USDT, ETHUSDT} }
MatchUpdates ==
  { UpdateBase(t, sym) : t \in {"entry_hit", "full_close"},
                         sym \in {ETH_USDT, ETHUSDT, <<>>} }
MatchSignal == NewSignalOver(MatchSignals, CloseAnswers, MaxSignals)
MatchUpdate == UpdateOver(MatchUpdates, MaxUpdates)
NextMatch == MatchSignal \/ MatchUpdate
SpecMatch == Init /\ [][NextMatch]_vars

\* the interleaved specification with both sweeps run again and again: a
\* sweep that can start does start, and a sweep that runs goes on
Fairness ==
  /\ WF_vars(SyncStart) /\ WF_vars(SyncStep)
  /\ WF_vars(PnlStart) /\ WF_vars(PnlStep)
SpecLive == Init /\ [][Next]_vars /\ Fairness

\* an executed signal whose entry Order the exchange reports filled at every
\* fetch, updates that move the stop loss, and sweeps run again and again: a
\* sweep that can start does start, a sweep that runs goes on, and a handler
\* that awaits the exchange is answered
FillAnswers == {data \in OrderAnswers : data.status \in {"filled", "completed"}}
FillStep == SyncStepOver(FillAnswers)
NextFill == FilledSignal \/ MoveBegin \/ MoveEnd \/ SyncStart \/ FillStep
FairFill == WF_vars(SyncStart) /\ WF_vars(FillStep) /\ WF_vars(MoveEnd)
SpecFill == Init /\ [][NextFill]_vars /\ FairFill

\* ------------------------------------------------------------------ claims
TerminalSignal == {SignalStatus.CLOSED, SignalStatus.CANCELLED, SignalStatus.EXPIRED}

CloseSides == {OrderSide.CLOSE_LONG, OrderSide.CLOSE_SHORT}

RECURSIVE SumQuantity(_, _)
SumQuantity(rows, S) ==
  IF S = {} THEN 0
  ELSE LET k == CHOOSE k \in S : TRUE
       IN  rows[k].quantity + SumQuantity(rows, S \ {k})

\* the quantities of the close Orders recorded for Position i
ClosedQuantity(rows, i) ==
  SumQuantity(rows, {k \in 1..Len(rows) :
                       rows[k].position = i /\ rows[k].side \in CloseSides})

\* C1: at no point do more than MAX_OPEN_POSITIONS Positions hold a status in
\* {OPEN, PENDING}, whatever the interleaving of events and sweeps
C1_MaxOpenPositions ==
  Cardinality({i \in 1..Len(positions) : positions[i].status \in {"open", "pending"}})
    <= MAX_OPEN_POSITIONS

\* C2: every Position satisfies 0 <= remaining_quantity <= quantity, for every
\* close_percentage an update can carry
C2_RemainingWithinQuantity ==
  \A i \in 1..Len(positions) :
     /\ 0 <= positions[i].remaining_quantity
     /\ positions[i].remaining_quantity <= positions[i].quantity

\* C3: a Position whose remaining_quantity is 0 has status CLOSED, from the
\* moment handle_new_signal creates it
C3_ZeroRemainingIsClosed ==
  \A i \in 1..Len(positions) :
     positions[i].remaining_quantity = 0 => positions[i].status = "closed"

\* C4: under partial_close and full_close updates remaining_quantity never
\* increases, is never negative, and quantity - remaining_quantity is the sum
\* of the quantities of the Position's close Orders
C4_CloseAccounting ==
  [][\A i \in 1..Len(positions') :
       /\ i <= Len(positions) =>
            positions'[i].remaining_quantity <= positions[i].remaining_quantity
       /\ positions'[i].remaining_quantity >= 0
       /\ positions'[i].quantity - positions'[i].remaining_quantity
            = ClosedQuantity(orders', i)]_vars

HasAllFields(p) ==
  /\ p.symbol # <<>>
  /\ p.direction # ""
  /\ p.entry_price_low # None
  /\ p.stop_loss # None

LiveCount(rows) ==
  Cardinality({i \in 1..Len(rows) : rows[i].status \in {"open", "pending"}})

PositionsOfSignal(rows, sig) == {i \in 1..Len(rows) : rows[i].signal = sig}

OrdersOfSignal(os, ps, sig) ==
  {k \in 1..Len(os) : ps[os[k].position].signal = sig}

\* C6: for a valid new signal with sl_distance > 0 the position size
\* (balance * risk_percent / 100 * leverage) / sl_distance is strictly positive
\* and the volume of place_order is that value rounded to 4 decimals
C6_PositionSizeAndVolume ==
  (ev.kind = "new_signal" /\ Len(calls) >= 4) =>
    LET p == ev.parsed
        sl_distance == Abs(p.entry_price_low[1] - p.stop_loss[1])
        num == ev.ex.balance * p.risk_percent * p.leverage * 10
        den == 100 * sl_distance
        volume == calls[4].volume
    IN  /\ sl_distance > 0
        /\ num > 0
        /\ calls[4].op = "place_order"
        /\ 2 * Abs(volume * den - num * Pow10(VOLUME_PLACES)) <= den

\* C7: a valid signal with sl_distance > 0, with capacity left and every
\* exchange call answered, ends ACTIVE with exactly one Position, PENDING, with
\* quantity = remaining_quantity = position_size and current_stop_loss = the
\* stop loss, and exactly one Order of it, SUBMITTED
C7_ExecutedSignal ==
  [][LET p == ev'.parsed
         sig == Len(signals) + 1
         mine == PositionsOfSignal(positions', sig)
         ords == OrdersOfSignal(orders', positions', sig)
     IN  ( /\ ev'.kind = "new_signal"
           /\ HasAllFields(p)
           /\ p.entry_price_low # p.stop_loss
           /\ LiveCount(positions) < MAX_OPEN_POSITIONS
           /\ ev'.ex.fail = 0 )
         => /\ Len(signals') = sig
            /\ signals'[sig].status = "active"
            /\ Cardinality(mine) = 1
            /\ \A i \in mine :
                 /\ positions'[i].status = "pending"
                 /\ positions'[i].quantity =
                      Quantize(ev'.ex.balance * p.risk_percent * p.leverage * 10,
                               100 * Abs(p.entry_price_low[1] - p.stop_loss[1]),
                               DECIMAL_PLACES)
                 /\ positions'[i].remaining_quantity = positions'[i].quantity
                 /\ positions'[i].current_stop_loss = p.stop_loss
            /\ Cardinality(ords) = 1
            /\ \A k \in ords : orders'[k].status = "submitted"]_vars

\* Scenario A has just been executed with a positive balance
C7_Witness ==
  /\ ev.kind = "new_signal"
  /\ ev.parsed = ScenarioA
  /\ ev.ex = [fail |-> 0, balance |-> 10]
  /\ Len(calls) = 5
  /\ signals[Len(signals)].status = "active"
  /\ positions[Len(positions)].quantity = 1206637

\* C8: when set_leverage, set_margin_type, get_account or place_order fails,
\* the Signal ends CANCELLED, it has no Position and no Order, and no later
\* call of the sequence is issued
C8_FailedExchangeCall ==
  (ev.kind = "new_signal" /\ ev.ex.fail \in 1..4 /\ Len(calls) >= ev.ex.fail) =>
    LET sig == Len(signals)
    IN  /\ Len(calls) = ev.ex.fail
        /\ calls[Len(calls)].op =
             <<"set_leverage", "set_margin_type", "get_account", "place_order">>[ev.ex.fail]
        /\ signals[sig].status = "cancelled"
        /\ PositionsOfSignal(positions, sig) = {}
        /\ OrdersOfSignal(orders, positions, sig) = {}

\* the order placement of a valid signal was refused
C8_Witness ==
  /\ ev.kind = "new_signal"
  /\ ev.ex.fail = 4
  /\ Len(calls) = 4
  /\ calls[4].op = "place_order"
  /\ signals[Len(signals)].status = "cancelled"

\* C9: with MAX_OPEN_POSITIONS Positions already OPEN or PENDING,
\* handle_new_signal creates no Signal and no Position, issues no exchange
\* call and leaves every entity as it was
C9_CapacityReached ==
  [][(ev'.kind = "new_signal" /\ LiveCount(positions) >= MAX_OPEN_POSITIONS)
       => /\ signals' = signals
          /\ positions' = positions
          /\ orders' = orders
          /\ updates' = updates
          /\ calls' = <<>>]_vars

\* a complete signal was dropped while the maximum was reached
C9_Witness ==
  /\ ev.kind = "new_signal"
  /\ HasAllFields(ev.parsed)
  /\ calls = <<>>
  /\ LiveCount(positions) >= MAX_OPEN_POSITIONS
  /\ Len(signals) < MaxSignals

\* C10: a parsed signal without symbol, direction, entry price or stop loss
\* creates no Signal, Position or Order and issues no exchange call
C10_IncompleteSignal ==
  [][(ev'.kind = "new_signal" /\ ~HasAllFields(ev'.parsed))
       => /\ signals' = signals
          /\ positions' = positions
          /\ orders' = orders
          /\ calls' = <<>>]_vars

\* a signal without direction was handled while capacity was left
C10_Witness ==
  /\ ev.kind = "new_signal"
  /\ ev.parsed.direction = ""
  /\ ev.parsed.symbol # <<>>
  /\ LiveCount(positions) < MAX_OPEN_POSITIONS
  /\ calls = <<>>

C12_NoErrorEscapes ==
  ev.kind \in {"new_signal", "update"} => ~ev.raised

\* C13: when the exchange call of an update handler fails, every Signal,
\* Position and Order is as it was before the event, only the SignalUpdate
\* record has been added, the handler returns normally and the call is issued
\* once
C13_FailedUpdateCall ==
  [][(ev'.kind = "update" /\ ~ev'.ok)
       => /\ signals' = signals
          /\ positions' = positions
          /\ orders' = orders
          /\ Len(updates') = Len(updates) + 1
          /\ SubSeq(updates', 1, Len(updates)) = updates
          /\ Len(calls') = 1
          /\ ~ev'.raised]_vars

\* the market order of a full_close was refused for a Position still PENDING
C13_Witness ==
  /\ ev.kind = "update"
  /\ ev.parsed.message_type = "full_close"
  /\ ~ev.ok
  /\ Len(calls) = 1
  /\ calls[1].op = "place_order"
  /\ \E i \in PositionsOfSignal(positions, ev.signal) :
        /\ positions[i].status = "pending"
        /\ positions[i].remaining_quantity > 0
  /\ signals[ev.signal].status = "active"

\* C14: when handle_update finds no Signal in NEW or ACTIVE matching the
\* update, no SignalUpdate is created, no Signal, Position or Order changes
\* and no exchange call is issued
C14_UnmatchedUpdate ==
  [][(ev'.kind = "update" /\ ev'.signal = 0)
       => /\ updates' = updates
          /\ signals' = signals
          /\ positions' = positions
          /\ orders' = orders
          /\ calls' = <<>>
          /\ ~ev'.raised]_vars

\* a full_close naming ETH/USDT arrived when the only Signal of that symbol
\* was CLOSED already
C14_Witness ==
  /\ ev.kind = "update"
  /\ ev.signal = 0
  /\ ev.parsed.message_type = "full_close"
  /\ ev.parsed.symbol = ETH_USDT
  /\ \E i \in 1..Len(signals) :
        signals[i].symbol = ETH_USDT /\ signals[i].status = "closed"
  /\ updates # <<>>

\* C15: no two events are handled concurrently: at most one invocation of
\* handle_new_signal is between its capacity check and its return
C15_OneEventAtATime ==
  Cardinality({t \in 1..Len(tasks) : tasks[t].pc = "admitted"}) <= 1

\* the fields of a Position a PnL sweep does not own
BesidesPnl(p) == [p EXCEPT !.unrealized_pnl = 0]

\* the fields of a Position a Reconciliation sweep does not own
BesidesPromotion(p) ==
  [p EXCEPT !.status = "", !.entry_price = None, !.opened_at = FALSE]

\* C16: a PnL sweep changes no Position field other than unrealized_pnl, and
\* a Reconciliation sweep changes on a Position only the PENDING -> OPEN
\* promotion, so the status and remaining_quantity a handler wrote are still
\* in place after a sweep has written the Position back
C16_SweepsKeepHandlerWrites ==
  [][\A i \in 1..Len(positions) :
       /\ pnl' # pnl => BesidesPnl(positions'[i]) = BesidesPnl(positions[i])
       /\ sync' # sync =>
            /\ BesidesPromotion(positions'[i]) = BesidesPromotion(positions[i])
            /\ \/ positions'[i].status = positions[i].status
               \/ /\ positions[i].status = "pending"
                  /\ positions'[i].status = "open"]_vars

NotClosed == {"pending", "open", "partially_closed"}

\* C17: after a full_close or position_closed update is handled for a matched
\* Signal that has a Position in PENDING, OPEN or PARTIALLY_CLOSED and the
\* exchange call succeeds, that Position has remaining_quantity 0, status
\* CLOSED and closed_at set, a close Order for the previous remaining quantity
\* is recorded, and the Signal is CLOSED
C17_FullClose ==
  [][LET sig == ev'.signal
         live == {i \in PositionsOfSignal(positions, sig) :
                    positions[i].status \in NotClosed}
     IN  ( /\ updates' # updates
           /\ ev'.kind = "update"
           /\ ev'.parsed.message_type \in {"full_close", "position_closed"}
           /\ live # {}
           /\ ev'.ok )
         => /\ signals'[sig].status = "closed"
            /\ Len(orders') = Len(orders) + 1
            /\ \A i \in live :
                 /\ positions'[i].remaining_quantity = 0
                 /\ positions'[i].status = "closed"
                 /\ positions'[i].closed_at
                 /\ orders'[Len(orders')].position = i
                 /\ orders'[Len(orders')].side \in CloseSides
                 /\ orders'[Len(orders')].quantity = positions[i].remaining_quantity
                 /\ orders'[Len(orders')].status = "submitted"]_vars

\* a full_close has closed a Position that a partial_close had reduced before
C17_Witness ==
  /\ ev.kind = "update"
  /\ ev.parsed.message_type = "full_close"
  /\ ev.ok
  /\ ev.signal # 0
  /\ signals[ev.signal].status = "closed"
  /\ Len(updates) = 2
  /\ updates[1].update_type = "partial_close"
  /\ \E i \in PositionsOfSignal(positions, ev.signal) :
        /\ positions[i].status = "closed"
        /\ positions[i].remaining_quantity = 0
        /\ ClosedQuantity(orders, i) > 0

\* C18: every partial_close with percentage p handled for a Signal whose
\* Position is not yet closed and has remaining quantity r > 0, the first and
\* every later one, submits a market close order for r*p/100, records an
\* Order of that quantity, and leaves remaining_quantity = r - r*p/100, with
\* status PARTIALLY_CLOSED if that is > 0 and CLOSED with closed_at set
\* otherwise
C18_PartialClose ==
  [][LET sig == ev'.signal
         live == {i \in PositionsOfSignal(positions, sig) :
                    /\ positions[i].status \in NotClosed
                    /\ positions[i].remaining_quantity > 0}
         pct == Get(ev'.parsed, "close_percentage", None)
     IN  ( /\ updates' # updates
           /\ ev'.kind = "update"
           /\ ev'.parsed.message_type = "partial_close"
           /\ pct # None
           /\ live # {}
           /\ ev'.ok )
         => /\ Len(orders') = Len(orders) + 1
            /\ Len(calls') = 1
            /\ \A i \in live :
                 LET r == positions[i].remaining_quantity
                 IN  /\ calls'[1].op = "place_order"
                     /\ calls'[1].side \in CloseSides
                     /\ calls'[1].volume =
                          Quantize(r * pct[1], 100 * Pow10(DECIMAL_PLACES - VOLUME_PLACES), 0)
                     /\ orders'[Len(orders')].position = i
                     /\ orders'[Len(orders')].side \in CloseSides
                     /\ orders'[Len(orders')].quantity = Quantize(r * pct[1], 100, 0)
                     /\ positions'[i].remaining_quantity =
                          Quantize(r * (100 - pct[1]), 100, 0)
                     /\ IF r * (100 - pct[1]) > 0
                          THEN positions'[i].status = "partially_closed"
                          ELSE /\ positions'[i].status = "closed"
                               /\ positions'[i].closed_at]_vars

\* the average prices the exchange may report
ReportedPrices == {data.avgPrice : data \in OrderAnswers} \ {None}

\* C19: in a Reconciliation sweep an Order in SUBMITTED or PARTIALLY_FILLED
\* reported filled becomes FILLED with filled_quantity = quantity and
\* filled_price = the reported average price (its limit price when none is
\* reported); its Position is promoted to OPEN with that entry_price only if
\* it is PENDING, and a Position that is not PENDING is left as it is
C19_FilledOrder ==
  [][\A k \in 1..Len(orders) :
       ( /\ orders[k].status \in {"submitted", "partially_filled"}
         /\ orders'[k].status = "filled" )
       => /\ orders'[k].filled_quantity = orders[k].quantity
          /\ orders'[k].filled_price \in {orders[k].price} \cup ReportedPrices
          /\ LET i == orders[k].position
             IN  IF positions[i].status = "pending"
                   THEN /\ positions'[i].status = "open"
                        /\ positions'[i].entry_price = orders'[k].filled_price
                   ELSE positions'[i] = positions[i]]_vars

DoneOrder == {"filled", "cancelled"}

\* C20: every Order satisfies filled_quantity <= quantity, and an Order that
\* has reached FILLED or CANCELLED never changes status again, also when two
\* Reconciliation sweeps overlap
C20_OrderFillState ==
  [][/\ \A k \in 1..Len(orders') :
          orders'[k].filled_quantity <= orders'[k].quantity
     /\ \A k \in 1..Len(orders) :
          orders[k].status \in DoneOrder => orders'[k].status = orders[k].status]_vars

\* the items of a dict, whatever their order
ItemsOf(params) == {params[n] : n \in 1..Len(params)}

KeysOf(params) == {params[n][1] : n \in 1..Len(params)}

\* both dicts have the same keys and the value of exactly one key differs
OneValueDiffers(a, b) ==
  /\ KeysOf(a) = KeysOf(b)
  /\ Cardinality({k \in KeysOf(a) : Lookup(a, k) # Lookup(b, k)}) = 1

IsSigned(n) == n \in DOMAIN signed /\ "signature" \in DOMAIN signed[n]

\* C21: two signing calls with the same key/value pairs and the same secret
\* return the same signature whatever the insertion order of the parameters,
\* and the hashed string differs whenever the value of a single parameter
\* differs
C21_SignatureOfParameterSet ==
  (IsSigned(1) /\ IsSigned(2)) =>
    /\ ( /\ ItemsOf(signed[1].params) = ItemsOf(signed[2].params)
         /\ signed[1].secret_key = signed[2].secret_key )
       => signed[1].signature = signed[2].signature
    /\ OneValueDiffers(signed[1].params, signed[2].params)
       => signed[1].query # signed[2].query

\* the same two parameters, inserted in opposite orders, were signed with
\* the same secret
C21_Witness ==
  /\ IsSigned(1) /\ IsSigned(2)
  /\ Len(signed[1].params) = 2
  /\ signed[2].params = <<signed[1].params[2], signed[1].params[1]>>
  /\ signed[1].secret_key = signed[2].secret_key
  /\ signed[1].signature = signed[2].signature

\* C22: when the stop-loss call fails after the entry order was accepted, the
\* Signal ends CANCELLED and nothing is rolled back: the Position created for
\* it is still PENDING, its Order still SUBMITTED, and no cancel-order call is
\* issued
C22_StopLossFailure ==
  (ev.kind = "new_signal" /\ ev.ex.fail = 5 /\ Len(calls) = 5) =>
    LET sig == Len(signals)
        mine == PositionsOfSignal(positions, sig)
        ords == OrdersOfSignal(orders, positions, sig)
    IN  /\ calls[4].op = "place_order"
        /\ calls[5].op = "set_stop_loss"
        /\ signals[sig].status = "cancelled"
        /\ Cardinality(mine) = 1
        /\ \A i \in mine : positions[i].status = "pending"
        /\ Cardinality(ords) = 1
        /\ \A k \in ords : orders[k].status = "submitted"
        /\ \A n \in 1..Len(calls) : calls[n].op # "cancel_order"

\* the stop loss of Scenario A was refused after its entry order was placed
C22_Witness ==
  /\ ev.kind = "new_signal"
  /\ ev.parsed = ScenarioA
  /\ ev.ex = [fail |-> 5, balance |-> 10]
  /\ Len(calls) = 5
  /\ calls[5].op = "set_stop_loss"
  /\ signals[Len(signals)].status = "cancelled"
  /\ positions[Len(positions)].status = "pending"

\* C23: every update of a handled kind whose Signal is matched appends
\* exactly one SignalUpdate referencing that Signal, whatever its handler then
\* does, and no SignalUpdate is ever modified or deleted: the records already
\* stored stay as they are and their number never decreases
C23_UpdateRecorded ==
  [][/\ Len(updates') >= Len(updates)
     /\ SubSeq(updates', 1, Len(updates)) = updates
     /\ ( /\ ev' # ev
          /\ ev'.kind = "update"
          /\ ev'.signal # 0
          /\ ev'.parsed.message_type \in
               {"entry_hit", "tp_hit", "risk_free", "partial_close", "full_close",
                "position_closed", "sl_modified"} )
        => /\ Len(updates') = Len(updates) + 1
           /\ updates'[Len(updates')].signal = ev'.signal]_vars

\* C24: after a risk_free update is handled for a matched Signal that has a
\* Position in PENDING, OPEN or PARTIALLY_CLOSED and the exchange call
\* succeeds, a stop loss at the Signal's entry price has been submitted and
\* the Position's current_stop_loss is that entry price
C24_RiskFree ==
  [][LET sig == ev'.signal
         live == {i \in PositionsOfSignal(positions, sig) :
                    positions[i].status \in NotClosed}
     IN  ( /\ ev' # ev
           /\ ev'.kind = "update"
           /\ ev'.parsed.message_type = "risk_free"
           /\ ~ev'.raised
           /\ live # {}
           /\ ev'.ok )
         => /\ Len(calls') = 1
            /\ calls'[1].op = "set_stop_loss"
            /\ calls'[1].price = Some(signals[sig].entry_price_low)
            /\ \A i \in live :
                 positions'[i].current_stop_loss = Some(signals[sig].entry_price_low)]_vars

\* C25: handling an entry_hit or tp_hit update changes no Signal, Position or
\* Order and issues no exchange call; its only effect is the SignalUpdate
\* appended for the matched Signal
C25_InformationalUpdate ==
  [][( /\ ev' # ev
       /\ ev'.kind = "update"
       /\ ev'.parsed.message_type \in {"entry_hit", "tp_hit"} )
     => /\ signals' = signals
        /\ positions' = positions
        /\ orders' = orders
        /\ calls' = <<>>
        /\ SubSeq(updates', 1, Len(updates)) = updates
        /\ Len(updates') <= Len(updates) + 1
        /\ (ev'.signal # 0 /\ ~ev'.raised)
             => /\ Len(updates') = Len(updates) + 1
                /\ updates'[Len(updates')].signal = ev'.signal
                /\ updates'[Len(updates')].update_type = ev'.parsed.message_type]_vars

\* a tp_hit was recorded for a Signal whose Position is still PENDING
C25_Witness ==
  /\ ev.kind = "update"
  /\ ev.parsed.message_type = "tp_hit"
  /\ ev.signal # 0
  /\ calls = <<>>
  /\ updates # <<>>
  /\ updates[Len(updates)].update_type = "tp_hit"
  /\ updates[Len(updates)].signal = ev.signal
  /\ \E i \in PositionsOfSignal(positions, ev.signal) :
        positions[i].status = "pending" /\ positions[i].remaining_quantity > 0
  /\ signals[ev.signal].status = "active"

\* the answers for which reconciling an Order fails
FailedAnswers == {data \in OrderAnswers \cup SaveFailures : Raises(data)}

ReportedPnl(side) ==
  UNION { { a.data[n].unrealizedPnl :
              n \in {m \in 1..Len(a.data) : LowerSide(a.data[m].side) = side} } :
          a \in PositionAnswers }

\* C27: a PnL sweep overwrites unrealized_pnl only on Positions that are OPEN
\* or PARTIALLY_CLOSED, with the value of the exchange entry of the Position's
\* side; a Position in PENDING, CLOSED, FAILED or CANCELLED, or without a
\* matching entry, is left unchanged
C27_PnlSweep ==
  [][(pnl.pc = "run" /\ pnl' # pnl) =>
       \A i \in 1..Len(positions) :
          /\ positions[i].status \notin {"open", "partially_closed"}
               => positions'[i] = positions[i]
          /\ positions'[i].unrealized_pnl # positions[i].unrealized_pnl
               => positions'[i].unrealized_pnl \in ReportedPnl(positions[i].side)]_vars

\* the Signals in NEW or ACTIVE
Selectable == {i \in 1..Len(signals) : signals[i].status \in {"new", "active"}}

\* C28: handle_update only ever selects a Signal in NEW or ACTIVE; when some
\* such Signal has a symbol equal to the update's symbol, case-insensitively
\* and after normalization, the selected Signal is one of those and never a
\* substring match; when the update has no symbol the most recently created
\* NEW or ACTIVE Signal is selected
C28_SignalMatching ==
  [][(ev' # ev /\ ev'.kind = "update") =>
       LET symbol == ev'.parsed.symbol
           exact == {i \in Selectable :
                       NormalizeSymbol(signals[i].symbol) = NormalizeSymbol(symbol)}
       IN  /\ ev'.signal # 0 => ev'.signal \in Selectable
           /\ (symbol # <<>> /\ exact # {}) => ev'.signal \in exact
           /\ (symbol = <<>> /\ Selectable # {})
                => /\ ev'.signal \in Selectable
                   /\ \A i \in Selectable : i <= ev'.signal]_vars

\* Position i is PENDING and its execution was aborted before any fill: its
\* Signal was CANCELLED by a failed sequence, or its entry Order was cancelled
\* on the exchange
Aborted(i) ==
  /\ i <= Len(positions)
  /\ positions[i].status = "pending"
  /\ \/ signals[positions[i].signal].status = "cancelled"
     \/ \E k \in 1..Len(orders) :
           /\ orders[k].position = i
           /\ orders[k].side \in {"open_long", "open_short"}
           /\ orders[k].status = "cancelled"

\* Position i is FAILED or CANCELLED, so it no longer counts toward the
\* maximum of concurrent positions
Settled(i) ==
  /\ i <= Len(positions)
  /\ positions[i].status \in {"failed", "cancelled"}

\* C29: a Position whose execution aborts before any fill does not stay
\* PENDING: it reaches FAILED or CANCELLED and stops counting toward the
\* maximum of concurrent positions
C29_AbortedPositionSettles ==
  \A i \in 1..MaxSignals : Aborted(i) ~> Settled(i)

CallOrder ==
  <<"set_leverage", "set_margin_type", "get_account", "place_order", "set_stop_loss">>

Except(params, k) ==
  LET Keeps(item) == item[1] # k
  IN  SelectSeq(params, Keeps)

AuthKeys ==
  {AuthKey.api_key, AuthKey.signature_method, AuthKey.timestamp, AuthKey.echostr}

\* C31: every private request carries api_key, signature_method, timestamp,
\* echostr and sign; sign is the signature of exactly the caller's parameters
\* plus those four, never of sign itself; the timestamp and echostr headers
\* are the values that were signed; echostr has length 35; a public request
\* carries no sign parameter
C31_SignedRequest ==
  \A n \in 1..Len(signed) :
     LET r == signed[n]
         covered == Except(r.params, AuthKey.sign)
     IN  IF r.auth
         THEN /\ AuthKeys \cup {AuthKey.sign} \subseteq KeysOf(r.params)
              /\ KeysOf(covered) = KeysOf(r.data) \cup AuthKeys
              /\ \A k \in KeysOf(r.data) \ AuthKeys :
                   Lookup(covered, k) = Lookup(r.data, k)
              /\ Lookup(r.params, AuthKey.sign).key = Client.secret_key
              /\ Lookup(r.params, AuthKey.sign).msg.md5 =
                   Join(<<"&">>, [i \in 1..Len(Sorted(Keys(covered))) |->
                          Sorted(Keys(covered))[i] \o <<"=">>
                            \o Lookup(covered, Sorted(Keys(covered))[i])])
              /\ Lookup(r.headers, AuthKey.timestamp) = Lookup(r.params, AuthKey.timestamp)
              /\ Lookup(r.headers, AuthKey.echostr) = Lookup(r.params, AuthKey.echostr)
              /\ Len(Lookup(r.params, AuthKey.echostr)) = 35
         ELSE /\ AuthKey.sign \notin KeysOf(r.params)
              /\ r.params = r.data

\* a stop-loss request of two parameters was posted
C31_Witness ==
  /\ Len(signed) = 1
  /\ signed[1].auth
  /\ Len(signed[1].data) = 2
  /\ Len(signed[1].params) = 7
  /\ signed[1].params[7][1] = AuthKey.sign
  /\ KeysOf(signed[1].data) = {<<"s", "i", "d", "e">>,
                               <<"s", "t", "o", "p", "P", "r", "i", "c", "e">>}

\* the response carries no order id: no data object, or no orderId in it
NoOrderId(result) ==
  \/ "data" \notin DOMAIN result
  \/ result.data = None
  \/ "orderId" \notin DOMAIN result.data[1]

\* C32: when the place_order response of handle_new_signal carries no order
\* id (no data object or no orderId), the Signal ends CANCELLED, no Position
\* and no Order is created, and no error leaves handle_new_signal
C32_MalformedPayload ==
  ( /\ ev.kind = "new_signal"
    /\ "placed" \in DOMAIN ev.ex
    /\ Len(calls) >= 4
    /\ NoOrderId(ev.ex.placed) )
  => LET sig == Len(signals)
     IN  /\ signals[sig].status = "cancelled"
         /\ PositionsOfSignal(positions, sig) = {}
         /\ OrdersOfSignal(orders, positions, sig) = {}
         /\ ~ev.raised

\* C33: every Position that is PENDING, OPEN or PARTIALLY_CLOSED belongs to
\* a Signal that is NEW or ACTIVE, so a later close or stop-loss update can
\* still be matched to it
C33_LivePositionHasLiveSignal ==
  \A i \in 1..Len(positions) :
     positions[i].status \in NotClosed
       => signals[positions[i].signal].status \in {"new", "active"}

\* C34: between events an ACTIVE Signal has a Position that is not CLOSED:
\* when the Signal's Position becomes CLOSED, by a full_close or by partial
\* closes that bring remaining_quantity to 0, the Signal becomes CLOSED in
\* the same event
C34_ActiveSignalHasOpenPosition ==
  \A sig \in 1..Len(signals) :
     signals[sig].status = "active"
       => \E i \in PositionsOfSignal(positions, sig) : positions[i].status # "closed"

\* C35: an update that carries symbol S is applied only to a Signal whose
\* normalized symbol equals S: whatever NEW or ACTIVE Signals exist, also
\* ones whose symbol contains the base asset of S, no Position of a Signal
\* for another symbol is closed or has its stop loss changed by it
C35_UpdateStaysOnItsSymbol ==
  [][(ev' # ev /\ ev'.kind = "update" /\ ev'.parsed.symbol # <<>>) =>
       LET S == NormalizeSymbol(ev'.parsed.symbol)
       IN  /\ ev'.signal # 0 => NormalizeSymbol(signals[ev'.signal].symbol) = S
           /\ \A i \in 1..Len(positions) :
                NormalizeSymbol(signals[positions[i].signal].symbol) # S
                  => positions'[i] = positions[i]]_vars

\* Position i is PENDING and has an entry Order
AwaitsFill(i) ==
  /\ i <= Len(positions)
  /\ positions[i].status = "pending"
  /\ \E k \in 1..Len(orders) :
        orders[k].position = i /\ orders[k].side \in {"open_long", "open_short"}

\* Position i is OPEN with its entry price recorded
Opened(i) ==
  /\ i <= Len(positions)
  /\ positions[i].status = "open"
  /\ positions[i].entry_price # None

\* C36: with Reconciliation sweeps run again and again, a PENDING Position
\* whose entry Order the exchange reports filled at every fetch, and for
\* which no close update is handled, eventually is OPEN with entry_price set
C36_FilledPositionOpens ==
  \A i \in 1..SweepSignals : AwaitsFill(i) ~> Opened(i)

\* the entry Orders among rows
EntryOrders(rows) ==
  {k \in 1..Len(rows) : rows[k].side \in {"open_long", "open_short"}}

\* C37: once a Position is CLOSED no entry Order of it remains live: an entry
\* Order still unfilled when a full_close or a 100% partial_close closes the
\* PENDING Position is cancelled, and no entry Order is reconciled as FILLED
\* for a Position that is already CLOSED
C37_NoLiveEntryOrderOnceClosed ==
  [][\A k \in EntryOrders(orders') :
       LET i == orders'[k].position
       IN  /\ positions'[i].status = "closed"
                => orders'[k].status \notin {"submitted", "partially_filled"}
           /\ ( /\ k <= Len(orders)
                /\ positions[i].status = "closed"
                /\ orders[k].status # "filled" )
              => orders'[k].status # "filled"]_vars

\* the last exchange call of the event was a set_stop_loss that the exchange
\* accepted
StopLossAccepted(e, cs) ==
  /\ cs # <<>>
  /\ cs[Len(cs)].op = "set_stop_loss"
  /\ IF e.kind = "new_signal" THEN e.ex.fail # 5 ELSE e.ok

\* C38: a Position's current_stop_loss is the stop price of the last
\* set_stop_loss call the exchange accepted for it: an event gives a Position
\* a current_stop_loss, at creation or by risk_free or sl_modified, only
\* together with an accepted set_stop_loss call for that price, and an
\* sl_modified update without a new value changes nothing
C38_StopLossIsTheAcceptedOne ==
  [][ev' # ev =>
       /\ \A i \in 1..Len(positions') :
            ( \/ i > Len(positions)
              \/ positions'[i].current_stop_loss # positions[i].current_stop_loss )
            => /\ StopLossAccepted(ev', calls')
               /\ positions'[i].current_stop_loss = calls'[Len(calls')].price
       /\ ( /\ ev'.kind = "update"
            /\ ev'.parsed.message_type = "sl_modified"
            /\ Get(ev'.parsed, "new_stop_loss", None) = None )
          => /\ positions' = positions
             /\ calls' = <<>>]_vars

====
